---- MODULE Spec2Model ----
(***************************************************************************)
(* Study Buddy: the FileManager (resource registry) of file_manager.py,    *)
(* the helpers of utils.py it uses, and the Streamlit script of main.py    *)
(* (session controller) that drives it against the remote platform.        *)
(*                                                                         *)
(* A file name is a sequence of one-character strings, so that the suffix  *)
(* computation of validate_file_type is modelled by what it does.  A       *)
(* remote identifier is a positive number; None and the empty string, both *)
(* falsy in Python, are 0.                                                 *)
(***************************************************************************)
EXTENDS Integers, Sequences, FiniteSets, TLC

\* ------------------------------------------------------------------ bounds
\* Remote ids the Registry specification assigns to files and records as
\* Index and Assistant ids.
MaxFileIds == 1
\* Documents the Registry specification tracks at once.
MaxTracked == 2
\* Entries of the local chat history.
MaxMessages == 2
\* Largest uploader_version; a removal is clicked only while two increments
\* (the removal's and the teardown's) still fit.
MaxUploaderVersion == 2
\* Jobs (runs) the client specification starts on the remote platform.
MaxRuns == 2

\* --------------------------------------------------------------- constants
\* config.py: MAX_FILE_SIZE_MB
MAX_FILE_SIZE_MB == 200
\* config.py: seconds wait_for_run_completion waits for a quiz and for a reply
QUIZ_GENERATION_TIMEOUT == 120
CHAT_RESPONSE_TIMEOUT == 120
\* utils.py get_file_size_mb: bytes per MB, 1024 * 1024
BYTES_PER_MB == 1048576
\* file_manager.py __init__: vector_store_id / assistant_id start as None
None == 0
\* file_manager.py add_file: file_id="" until the remote upload
NoFileId == 0

\* config.py: SUPPORTED_EXTS
SUPPORTED_EXTS ==
    { <<"p","d","f">>, <<"t","x","t">>, <<"m","d">>, <<"d","o","c","x">>,
      <<"p","p","t","x">>, <<"c","s","v">>, <<"j","s","o","n">>,
      <<"h","t","m","l">>, <<"p","y">>, <<"j","a","v","a">>, <<"r","b">>,
      <<"t","e","x">>, <<"c">>, <<"c","p","p">> }

\* ------------------------------------------------------------ file inputs
NameATxt == <<"a",".","t","x","t">>
NameBPdf == <<"b",".","P","D","F">>
NameCExe == <<"c",".","e","x","e">>
NameDotPdf == <<".","p","d","f">>
NameNotes == <<"n","o","t","e","s">>

\* The byte ceiling the configuration states: MAX_FILE_SIZE_MB megabytes.
CeilingBytes == MAX_FILE_SIZE_MB * BYTES_PER_MB

\* Uploaded file objects (name, size in bytes) handed to FileManager.add_file.
RegistryInputs ==
    { [name |-> NameATxt,   size |-> 1],
      [name |-> NameBPdf,   size |-> 157287],
      [name |-> NameCExe,   size |-> 1],
      [name |-> NameDotPdf, size |-> 1],
      [name |-> NameNotes,  size |-> 1],
      [name |-> NameATxt,   size |-> CeilingBytes],
      [name |-> NameATxt,   size |-> CeilingBytes + 1],
      [name |-> NameBPdf,   size |-> CeilingBytes + 52428],
      [name |-> NameBPdf,   size |-> CeilingBytes + 52429],
      [name |-> NameCExe,   size |-> CeilingBytes + BYTES_PER_MB] }

\* ------------------------------------------------------------ utils.py
\* str.lower() on the characters the inputs use.
LowerChar(c) ==
    CASE c = "P" -> "p"
      [] c = "D" -> "d"
      [] c = "F" -> "f"
      [] OTHER -> c

Lower(s) == [i \in 1..Len(s) |-> LowerChar(s[i])]

\* str.rfind("."), 1-based; 0 when there is no dot.
LastDot(s) ==
    LET dots == {i \in 1..Len(s) : s[i] = "."}
    IN  IF dots = {} THEN 0 ELSE CHOOSE i \in dots : \A j \in dots : j <= i

\* pathlib's PurePath.suffix of a bare file name: the text from the last dot
\* on, unless that dot is the first or the last character.
Suffix(s) ==
    LET i == LastDot(s)
    IN  IF 1 < i /\ i < Len(s) THEN SubSeq(s, i, Len(s)) ELSE <<>>

\* str.lstrip(".")
RECURSIVE LStripDots(_)
LStripDots(s) ==
    IF s # <<>> /\ Head(s) = "." THEN LStripDots(Tail(s)) ELSE s

\* Path(filename).suffix.lower().lstrip(".")
FileExt(filename) == LStripDots(Lower(Suffix(filename)))

validate_file_type(filename, supported_extensions) ==
    FileExt(filename) \in supported_extensions

\* round(x, 1) of x = file_size_bytes / 2^20, in tenths of a MB.  x is exact in
\* binary floating point, so Python rounds the exact value to the nearest
\* tenth, a tie (x.25, x.75) going to the even tenth.
RoundTenths(num, den) ==
    LET q == num \div den
        r == num % den
    IN  IF 2 * r > den THEN q + 1
        ELSE IF 2 * r < den THEN q
        ELSE IF q % 2 = 0 THEN q ELSE q + 1

get_file_size_mb(file_size_bytes) ==
    LET whole == file_size_bytes \div BYTES_PER_MB
        rest == file_size_bytes % BYTES_PER_MB
    IN  10 * whole + RoundTenths(10 * rest, BYTES_PER_MB)

\* ------------------------------------------- utils.py: the JSON extractor
\* A text is a sequence of tokens: the backquote "BQ", the characters "\n",
\* " ", "[", "]" and ",", the word "json", the word "x" (prose), and the JSON
\* literals below, each a token of its own.  The text of a quiz record holds
\* the brackets of its options array, and the scans for brackets see them.
\* A decoded JSON value is a record of its type and its value; Python's None
\* is the value of type "None".
JsonNull == [type |-> "None", val |-> <<>>]

JsonArray(items) == [type |-> "array", val |-> items]

JsonString(s) == [type |-> "string", val |-> s]

QuizKeys == {"question", "options", "correct"}

QuizObject(keys, options, correct) ==
    [type |-> "object",
     val |-> [keys |-> keys, options |-> options, correct |-> correct,
              question |-> "Q"]]

\* What json.loads makes of the literals: objects Q1 and Q2 are well-formed
\* quiz records, Q3 has three options, Qx a correct value that is no option,
\* Qn no question, Qb a question whose string holds a "]"; 7 is a number.
ObjectLiterals == {"Q1", "Q2", "Q3", "Qx", "Qn", "Qb"}

JsonLiterals == ObjectLiterals \cup {"7"}

JsonLiteral(tok) ==
    CASE tok = "Q1" -> QuizObject(QuizKeys, <<"a", "b", "c", "d">>, "a")
      [] tok = "Q2" -> QuizObject(QuizKeys, <<"a", "A", "b", "c">>, "A")
      [] tok = "Q3" -> QuizObject(QuizKeys, <<"a", "b", "c">>, "a")
      [] tok = "Qx" -> QuizObject(QuizKeys, <<"a", "b", "c", "d">>, "e")
      [] tok = "Qn" -> QuizObject({"options", "correct"},
                                  <<"a", "b", "c", "d">>, "a")
      [] tok = "Qb" -> [QuizObject(QuizKeys, <<"a", "b", "c", "d">>, "b")
                           EXCEPT !.val.question = "Q]"]
      [] OTHER -> [type |-> "number", val |-> 7]

\* The tokens whose text holds a "[" and a "]": the brackets themselves, and
\* a quiz record, for its options array.  The text of Qb holds one more "]",
\* in its question, before the options.
HasOpen(tok) == tok = "[" \/ tok \in ObjectLiterals

HasClose(tok) == tok = "]" \/ tok \in ObjectLiterals

ClosesInString == {"Qb"}

SetMin(S) == CHOOSE x \in S : \A y \in S : x <= y

SetMax(S) == CHOOSE x \in S : \A y \in S : y <= x

\* str.strip(chars): the text without its leading and trailing tokens of cs.
StripSet(t, cs) ==
    LET keep == {i \in 1..Len(t) : t[i] \notin cs}
    IN  IF keep = {} THEN <<>> ELSE SubSeq(t, SetMin(keep), SetMax(keep))

\* str.strip(): white space is stripped.
Strip(t) == StripSet(t, {" ", "\n"})

\* str.startswith
StartsWith(t, prefix) ==
    Len(t) >= Len(prefix) /\ SubSeq(t, 1, Len(prefix)) = prefix

\* extract_first_json_array 32-37: the code fences are removed from a text
\* that starts with one.
RemoveFences(text) ==
    IF StartsWith(Strip(text), <<"BQ", "BQ", "BQ">>)
    THEN LET cleaned == StripSet(Strip(text), {"BQ", "\n", " "})
             untagged == IF StartsWith(cleaned, <<"json", "\n">>)
                         THEN SubSeq(cleaned, 3, Len(cleaned))
                         ELSE cleaned
         IN  StripSet(untagged, {"BQ", "\n", " "})
    ELSE text

\* The slice of the text from the "[" of token a to the "]" of token b.  A
\* slice within one quiz record is its options array, written "OPT" and the
\* record's token; a slice that begins or ends within a quiz record has only
\* a part of that record's text, written "CUT".
Slice(t, a, b) ==
    IF a = b THEN <<"OPT", t[a]>>
    ELSE (IF t[a] = "[" THEN <<"[">> ELSE <<"CUT">>)
         \o SubSeq(t, a + 1, b - 1)
         \o (IF t[b] = "]" THEN <<"]">> ELSE <<"CUT">>)

\* re.search(r"\[.*\]", text, re.DOTALL): from the first "[" to the last "]".
GreedySpan(t) ==
    LET opens == {i \in 1..Len(t) : HasOpen(t[i])}
        closes == {i \in 1..Len(t) : HasClose(t[i])}
    IN  IF opens # {} /\ closes # {} /\ SetMax(closes) >= SetMin(opens)
        THEN <<Slice(t, SetMin(opens), SetMax(closes))>>
        ELSE <<>>

\* Lines 45-58: the scan for the first span whose brackets balance.  At depth
\* 0 a quiz record opens and closes its options array; deeper, its options
\* leave the depth as it was, and the "]" of a string lowers it.
RECURSIVE BalancedScan(_, _, _, _)
BalancedScan(t, i, start, depth) ==
    IF i > Len(t) THEN <<>>
    ELSE IF t[i] = "["
    THEN BalancedScan(t, i + 1, IF depth = 0 THEN i ELSE start, depth + 1)
    ELSE IF depth = 0 /\ t[i] \in ObjectLiterals
    THEN <<Slice(t, i, i)>>
    ELSE IF depth > 0 /\ (t[i] = "]" \/ t[i] \in ClosesInString)
    THEN IF depth = 1 THEN <<Slice(t, start, i)>>
         ELSE BalancedScan(t, i + 1, start, depth - 1)
    ELSE BalancedScan(t, i + 1, start, depth)

BalancedSpan(t) == BalancedScan(t, 1, 0, 0)

\* json.loads on the tokens w (white space removed), from position i: a
\* literal, an options array or an array of values; next is the position
\* after the value.
ParseFail == [val |-> JsonNull, ok |-> FALSE, next |-> 0]

RECURSIVE ParseValue(_, _)
RECURSIVE ParseItems(_, _, _)
RECURSIVE ParseItems_Reversed(_, _, _)
ParseValue(w, i) ==
    IF i > Len(w) THEN ParseFail
    ELSE IF w[i] \in JsonLiterals
    THEN [ok |-> TRUE, val |-> JsonLiteral(w[i]), next |-> i + 1]
    ELSE IF w[i] = "OPT"
    THEN LET options == JsonLiteral(w[i + 1]).val.options
         IN  [ok |-> TRUE,
              val |-> JsonArray([k \in 1..Len(options) |->
                                    JsonString(options[k])]),
              next |-> i + 2]
    ELSE IF w[i] # "[" THEN ParseFail
    ELSE IF i + 1 <= Len(w) /\ w[i + 1] = "]"
    THEN [ok |-> TRUE, val |-> JsonArray(<<>>), next |-> i + 2]
    ELSE ParseItems(w, i + 1, <<>>)

\* The items are put in front of those read before.
ParseItems_Reversed(w, i, acc) ==
    LET v == ParseValue(w, i)
    IN  IF ~v.ok \/ v.next > Len(w) THEN ParseFail
        ELSE IF w[v.next] = ","
        THEN ParseItems_Reversed(w, v.next + 1, <<v.val>> \o acc)
        ELSE IF w[v.next] = "]"
        THEN [ok |-> TRUE, val |-> JsonArray(<<v.val>> \o acc),
              next |-> v.next + 1]
        ELSE ParseFail

ParseItems(w, i, acc) ==
    LET v == ParseValue(w, i)
    IN  IF ~v.ok \/ v.next > Len(w) THEN ParseFail
        ELSE IF w[v.next] = ","
        THEN ParseItems(w, v.next + 1, Append(acc, v.val))
        ELSE IF w[v.next] = "]"
        THEN [ok |-> TRUE, val |-> JsonArray(Append(acc, v.val)),
              next |-> v.next + 1]
        ELSE ParseFail

\* json.loads: the whole text is one JSON value, or the call raises.
json_loads(t) ==
    LET w == SelectSeq(t, LAMBDA c : c \notin {" ", "\n"})
        r == ParseValue(w, 1)
    IN  IF r.ok /\ r.next = Len(w) + 1 THEN [val |-> r.val, ok |-> TRUE]
        ELSE [val |-> JsonNull, ok |-> FALSE]

\* Lines 69-71: the ValueError raised when json.loads(text) of line 68 raised
\* e.  Its message is a fixed prefix and str(e), which is the decoder's
\* message and the position of the fault, none of the document; e itself,
\* the error's __context__, has the document that line 68 parsed as e.doc.
ParseError(doc) ==
    [val |-> JsonNull, exc |-> "ValueError",
     message |-> <<"Could not parse quiz data: ", "JSONDecodeError">>,
     context_doc |-> doc]

Returned(val) ==
    [val |-> val, exc |-> "None", message |-> <<>>, context_doc |-> <<>>]

\* The scan of lines 45-58 adds no candidate.
extract_first_json_array_NoScan(text) ==
    LET t == RemoveFences(text)
        candidates == GreedySpan(t)
        parsed == [k \in 1..Len(candidates) |-> json_loads(candidates[k])]
        good == {k \in 1..Len(candidates) : parsed[k].ok}
        whole == json_loads(t)
    IN  IF good # {} THEN Returned(parsed[SetMin(good)].val)
        ELSE IF whole.ok THEN Returned(whole.val)
        ELSE ParseError(t)

\* extract_first_json_array: the first candidate that parses, else the whole
\* text, else ValueError.
extract_first_json_array(text) ==
    LET t == RemoveFences(text)
        candidates == GreedySpan(t) \o BalancedSpan(t)
        parsed == [k \in 1..Len(candidates) |-> json_loads(candidates[k])]
        good == {k \in 1..Len(candidates) : parsed[k].ok}
        whole == json_loads(t)
    IN  IF good # {} THEN Returned(parsed[SetMin(good)].val)
        ELSE IF whole.ok THEN Returned(whole.val)
        ELSE ParseError(t)

\* ------------------------------------------------------------------ state
VARIABLES
    uploaded_files,     \* FileManager.uploaded_files: sequence of UploadedFile
    vector_store_id,    \* FileManager.vector_store_id (Index id), None when absent
    assistant_id,       \* FileManager.assistant_id, None when absent
    ret,                \* outcome of the last direct FileManager call, or the
                        \* score line of the last quiz submission
    openai_client,      \* st.session_state.openai_client: None until initialised
    start_chat,         \* st.session_state.start_chat
    thread_id,          \* st.session_state.thread_id (chat conversation)
    quiz_data,          \* st.session_state.quiz_data, JsonNull when None
    messages,           \* st.session_state.messages: roles of the local chat history
    quiz_thread_id,     \* st.session_state.quiz_thread_id (quiz conversation)
    uploader_version,   \* st.session_state.uploader_version
    uploader,           \* the files the file_uploader widget holds
    pc,                 \* "start": before the first script run; "ran": a
                        \* run has just ended; "idle": waiting for the user
    removal,            \* what the last removal did and reported
    calls,              \* the client calls of the last script run and its reruns
    index_files,        \* remote: file ids attached to the recorded Index
    assistant_index,    \* remote: the Index id the recorded Assistant is bound to
    threads,            \* remote: the messages of each thread, oldest first
    runs,               \* remote: the runs started, by run id
    call                \* the StudyBuddyClient call in progress, or the last one

regVars == <<uploaded_files, vector_store_id, assistant_id>>
sessionVars == <<openai_client, start_chat, thread_id, quiz_data, messages,
                 quiz_thread_id, uploader_version>>
runVars == <<uploader, pc, removal, calls>>
remoteVars == <<index_files, assistant_index>>
clientVars == <<threads, runs, call>>
ctlVars == <<sessionVars, runVars, remoteVars, clientVars>>
vars == <<regVars, ret, ctlVars>>

\* -------------------------------------------------------- file_manager.py
\* UploadedFile.  temp_path and upload_time (a file name and a clock reading
\* derived from time.time()) are left out: no operation below reads them.
UploadedFile(original_name, file_id, file_size_mb, file_type) ==
    [original_name |-> original_name, file_id |-> file_id,
     file_size_mb |-> file_size_mb, file_type |-> file_type]

FileManagerInit ==
    /\ uploaded_files = <<>>
    /\ vector_store_id = None
    /\ assistant_id = None

\* add_file without the type validation of lines 39-40.
add_file_NoTypeCheck(files, file_data, disk_ok) ==
    LET file_size_mb == get_file_size_mb(file_data.size)
    IN  IF file_size_mb > 10 * MAX_FILE_SIZE_MB
        THEN [exc |-> "FileTooLarge", files |-> files]
        ELSE IF ~disk_ok
        THEN [exc |-> "OSError", files |-> files]
        ELSE [exc |-> "None",
              files |-> Append(files,
                  UploadedFile(file_data.name, NoFileId, file_size_mb,
                               FileExt(file_data.name)))]

\* FileManager.add_file: the exception it raises ("None": it returns the new
\* UploadedFile) and the list it leaves.  file_size_mb is in tenths of a MB.
\* disk_ok: whether writing the temporary copy succeeds.
add_file(files, file_data, disk_ok) ==
    LET file_size_mb == get_file_size_mb(file_data.size)
    IN  IF ~validate_file_type(file_data.name, SUPPORTED_EXTS)
        THEN [exc |-> "FileTypeNotSupported", files |-> files]
        ELSE IF file_size_mb > 10 * MAX_FILE_SIZE_MB
        THEN [exc |-> "FileTooLarge", files |-> files]
        ELSE IF ~disk_ok
        THEN [exc |-> "OSError", files |-> files]
        ELSE [exc |-> "None",
              files |-> Append(files,
                  UploadedFile(file_data.name, NoFileId, file_size_mb,
                               FileExt(file_data.name)))]

\* Index of the first tracked file with this name, 0 when there is none.
FirstIndexOf(files, filename) ==
    LET hits == {i \in 1..Len(files) : files[i].original_name = filename}
    IN  IF hits = {} THEN 0 ELSE CHOOSE i \in hits : \A j \in hits : i <= j

has_file_with_name(files, filename) ==
    \E i \in 1..Len(files) : files[i].original_name = filename

\* list.pop(i)
RemoveAt(s, i) == SubSeq(s, 1, i - 1) \o SubSeq(s, i + 1, Len(s))

\* FileManager.remove_file: drops the first file with this name.
remove_file(files, filename) ==
    LET i == FirstIndexOf(files, filename)
    IN  IF i = 0 THEN [val |-> FALSE, files |-> files]
        ELSE [val |-> TRUE, files |-> RemoveAt(files, i)]

\* FileManager.update_file_id: sets file_id of the first file with this name.
update_file_id(files, filename, file_id) ==
    LET i == FirstIndexOf(files, filename)
    IN  IF i = 0 THEN files ELSE [files EXCEPT ![i].file_id = file_id]

\* FileManager.get_all_file_ids: the non-empty file ids, in list order.
get_all_file_ids(files) ==
    SelectSeq([i \in 1..Len(files) |-> files[i].file_id],
              LAMBDA id : id # NoFileId)

has_files(files) == Len(files) > 0

\* needs_vector_store_update that looks at the Index id only.
needs_vector_store_update_IndexOnly(files, vs_id, asst_id) ==
    IF files = <<>> THEN vs_id # None ELSE vs_id = None

\* FileManager.needs_vector_store_update
needs_vector_store_update(files, vs_id, asst_id) ==
    IF files = <<>>
    THEN vs_id # None \/ asst_id # None
    ELSE IF vs_id = None THEN TRUE ELSE FALSE

\* FileManager.clear_vector_store_info: the (vector_store_id, assistant_id) left.
clear_vector_store_info == [vector_store_id |-> None, assistant_id |-> None]

\* ------------------------------------------------- session state, main.py
NoRemoval == [happened |-> FALSE]
NoCall == [op |-> "none"]

SessionInit ==
    /\ openai_client = None
    /\ start_chat = FALSE
    /\ thread_id = None
    /\ quiz_data = JsonNull
    /\ messages = <<>>
    /\ quiz_thread_id = None
    /\ uploader_version = 0

RemoteInit ==
    /\ index_files = {}
    /\ assistant_index = None

\* No thread and no run exists; the client is in no call.
NoResult == [exc |-> "None", kind |-> "none", status |-> "None", turn |-> 0]

ClientInit ==
    /\ threads = <<>>
    /\ runs = <<>>
    /\ call = [op |-> "none", pc |-> "idle", thread_id |-> None,
               run_id |-> None, waited |-> 0, ret |-> NoResult]

\* The session is new: the script has not run yet, the uploader is empty.
Init ==
    /\ FileManagerInit
    /\ SessionInit
    /\ RemoteInit
    /\ ret = NoCall
    /\ uploader = {}
    /\ pc = "start"
    /\ removal = NoRemoval
    /\ calls = <<>>
    /\ ClientInit

\* ---------------------------------------- the FileManager called directly
\* Each action is one call of a public method (or one assignment of a public
\* attribute, as main.py does for the two ids) on a FileManager; ret records
\* the call, its argument and its outcome.
RAddFile ==
    \E file_data \in RegistryInputs, disk_ok \in BOOLEAN :
        LET r == add_file(uploaded_files, file_data, disk_ok)
        IN  /\ Len(uploaded_files) < MaxTracked
            /\ uploaded_files' = r.files
            /\ ret' = [op |-> "add_file", arg |-> file_data, exc |-> r.exc]
            /\ UNCHANGED <<vector_store_id, assistant_id, ctlVars>>

RUpdateFileId ==
    \E i \in 1..Len(uploaded_files), file_id \in 1..MaxFileIds :
        /\ uploaded_files' =
               update_file_id(uploaded_files, uploaded_files[i].original_name, file_id)
        /\ ret' = [op |-> "update_file_id"]
        /\ UNCHANGED <<vector_store_id, assistant_id, ctlVars>>

RRemoveFile ==
    \E file_data \in RegistryInputs :
        LET r == remove_file(uploaded_files, file_data.name)
        IN  /\ uploaded_files' = r.files
            /\ ret' = [op |-> "remove_file", val |-> r.val]
            /\ UNCHANGED <<vector_store_id, assistant_id, ctlVars>>

RSetVectorStoreId ==
    \E id \in 1..MaxFileIds :
        /\ vector_store_id' = id
        /\ ret' = [op |-> "set_vector_store_id"]
        /\ UNCHANGED <<uploaded_files, assistant_id, ctlVars>>

RSetAssistantId ==
    \E id \in 1..MaxFileIds :
        /\ assistant_id' = id
        /\ ret' = [op |-> "set_assistant_id"]
        /\ UNCHANGED <<uploaded_files, vector_store_id, ctlVars>>

RClearVectorStoreInfo ==
    /\ vector_store_id' = clear_vector_store_info.vector_store_id
    /\ assistant_id' = clear_vector_store_info.assistant_id
    /\ ret' = [op |-> "clear_vector_store_info"]
    /\ UNCHANGED <<uploaded_files, ctlVars>>

RNeedsVectorStoreUpdate ==
    /\ ret' = [op |-> "needs_vector_store_update",
               val |-> needs_vector_store_update(uploaded_files, vector_store_id,
                                                 assistant_id)]
    /\ UNCHANGED <<regVars, ctlVars>>

RegistryNext ==
    \/ RAddFile
    \/ RUpdateFileId
    \/ RRemoveFile
    \/ RSetVectorStoreId
    \/ RSetAssistantId
    \/ RClearVectorStoreInfo
    \/ RNeedsVectorStoreUpdate

SpecRegistry == Init /\ [][RegistryNext]_vars

\* ------------------------------------------------------- the remote side
\* The platform's ids are opaque and never collide with one in use.  An id is
\* a positive number, and a create call returns the least one that neither
\* the session nor the recorded Index still holds (ids nobody holds any more
\* are not told apart).  Of the platform's Indexes only the one whose id the
\* Registry records is kept: the id of any other is lost to the program.
FreshId(used) ==
    CHOOSE i \in 1..(Cardinality(used) + 1) :
        i \notin used /\ \A j \in 1..(i - 1) : j \in used

FileIdsInUse(files, attached) ==
    {files[i].file_id : i \in 1..Len(files)} \cup attached

\* Files the user can put into the uploader widget.
UploadInputs ==
    { [name |-> NameATxt, size |-> 1],
      [name |-> NameATxt, size |-> 2],
      [name |-> NameBPdf, size |-> 157287] }

\* Files the uploader hands over that add_file rejects, with the files above:
\* an unsupported type and a size above the limit.
RejectedInputs ==
    { [name |-> NameCExe, size |-> 1],
      [name |-> NameBPdf, size |-> CeilingBytes + 52429] }

\* What happens to one file in handle_file_upload: everything succeeds, the
\* remote upload raises, or the attach to the Index raises.  (SpecRegistry
\* covers add_file raising.)
UploadOutcomes == {"ok", "upload_fail", "attach_fail"}

\* StudyBuddyClient.attach_file_to_vector_store, on the recorded Index.
attach_file_to_vector_store(attached, file_id) == attached \cup {file_id}

\* StudyBuddyClient.attach_files_to_vector_store, the first n attaches of it
\* (the next one raises when n < Len(file_ids)).
RECURSIVE attach_files_to_vector_store(_, _, _)
attach_files_to_vector_store(attached, file_ids, n) ==
    IF n = 0 \/ file_ids = <<>> THEN attached
    ELSE attach_files_to_vector_store(
             attach_file_to_vector_store(attached, Head(file_ids)),
             Tail(file_ids), n - 1)

\* StudyBuddyClient.remove_file_from_vector_store: the attachments left and
\* the value returned; a remote failure is caught and becomes False.
remove_file_from_vector_store(attached, file_id, remote_ok) ==
    IF remote_ok
    THEN [val |-> TRUE, index_files |-> attached \ {file_id}]
    ELSE [val |-> FALSE, index_files |-> attached]

\* StudyBuddyClient.delete_file: True, or False when the remote call failed.
delete_file(file_id, remote_ok) == remote_ok

\* ----------------------------------------------------------- main.py
\* handle_file_upload that does not skip a name already present.
handle_one_upload_NoSkip(st, f, outcome, client, vs_id) ==
    LET r == add_file(st.files, f, TRUE)
        up == [op |-> "upload_file", file |-> f]
    IN  IF r.exc # "None" THEN st
        ELSE IF client = None THEN [st EXCEPT !.files = r.files]
        ELSE IF outcome = "upload_fail"
        THEN [st EXCEPT !.files = r.files, !.calls = Append(@, up)]
        ELSE LET file_id == FreshId(FileIdsInUse(r.files, st.index_files))
                 at == [op |-> "attach_file_to_vector_store",
                        vector_store_id |-> vs_id, file_id |-> file_id]
                 st2 == [st EXCEPT
                            !.files = update_file_id(r.files, f.name, file_id),
                            !.calls = Append(@, up)]
             IN  IF vs_id = None THEN st2
                 ELSE IF outcome = "attach_fail"
                 THEN [st2 EXCEPT !.calls = Append(@, at)]
                 ELSE [st2 EXCEPT !.index_files =
                                      attach_file_to_vector_store(@, file_id),
                                  !.calls = Append(@, at)]

\* handle_file_upload that sends the file to the remote store before add_file
\* validates it.
handle_one_upload_UploadFirst(st, f, outcome, client, vs_id) ==
    IF has_file_with_name(st.files, f.name) \/ client = None THEN st
    ELSE LET r == add_file(st.files, f, TRUE)
             st1 == [st EXCEPT !.calls =
                        Append(@, [op |-> "upload_file", file |-> f])]
         IN  IF r.exc # "None" \/ outcome = "upload_fail" THEN st1
             ELSE [st1 EXCEPT
                      !.files = update_file_id(r.files, f.name,
                                    FreshId(FileIdsInUse(r.files, st.index_files)))]

\* handle_file_upload that uploads a new document and never attaches it.
handle_one_upload_NoAttach(st, f, outcome, client, vs_id) ==
    IF has_file_with_name(st.files, f.name) THEN st
    ELSE LET r == add_file(st.files, f, TRUE)
             up == [op |-> "upload_file", file |-> f]
         IN  IF r.exc # "None" THEN st
             ELSE IF client = None THEN [st EXCEPT !.files = r.files]
             ELSE IF outcome = "upload_fail"
             THEN [st EXCEPT !.files = r.files, !.calls = Append(@, up)]
             ELSE [st EXCEPT
                      !.files = update_file_id(r.files, f.name,
                                    FreshId(FileIdsInUse(r.files, st.index_files))),
                      !.calls = Append(@, up)]

\* One iteration of the loop of handle_file_upload, on the record st of the
\* document list, the recorded Index's attachments and the client calls
\* made.  Any exception ends the iteration with what was done so far: a document whose remote upload
\* failed (or found no client) stays tracked with an empty file_id.
handle_one_upload(st, f, outcome, client, vs_id) ==
    IF has_file_with_name(st.files, f.name) THEN st
    ELSE LET r == add_file(st.files, f, TRUE)
             up == [op |-> "upload_file", file |-> f]
         IN  IF r.exc # "None" THEN st
             ELSE IF client = None THEN [st EXCEPT !.files = r.files]
             ELSE IF outcome = "upload_fail"
             THEN [st EXCEPT !.files = r.files, !.calls = Append(@, up)]
             ELSE LET file_id == FreshId(FileIdsInUse(r.files, st.index_files))
                      at == [op |-> "attach_file_to_vector_store",
                             vector_store_id |-> vs_id, file_id |-> file_id]
                      st2 == [st EXCEPT
                                 !.files = update_file_id(r.files, f.name, file_id),
                                 !.calls = Append(@, up)]
                  IN  IF vs_id = None THEN st2
                      ELSE IF outcome = "attach_fail"
                      THEN [st2 EXCEPT !.calls = Append(@, at)]
                      ELSE [st2 EXCEPT !.index_files =
                                           attach_file_to_vector_store(@, file_id),
                                       !.calls = Append(@, at)]

RECURSIVE handle_file_upload(_, _, _, _, _)
handle_file_upload(st, new_files, outcomes, client, vs_id) ==
    IF new_files = <<>> THEN st
    ELSE handle_file_upload(
             handle_one_upload(st, Head(new_files), Head(outcomes), client, vs_id),
             Tail(new_files), Tail(outcomes), client, vs_id)

\* The upload dispatch block: the uploader's files whose name is not tracked.
NewFiles(widget_files, files) ==
    LET processed_names == {files[i].original_name : i \in 1..Len(files)}
    IN  {f \in widget_files : f.name \notin processed_names}

\* The orders in which the widget can list a set of files.
Orders(S) ==
    {q \in [1..Cardinality(S) -> S] : {q[i] : i \in 1..Cardinality(S)} = S}

\* remove_file_completely that gives up, the document still tracked, when the
\* remote detach or delete fails.
remove_file_completely_Abort(files, vs_id, attached, filename, detach_ok, delete_ok) ==
    LET i == FirstIndexOf(files, filename)
        file_id == IF i = 0 THEN NoFileId ELSE files[i].file_id
        detach == i # 0 /\ vs_id # None /\ file_id # NoFileId
        delete == i # 0 /\ file_id # NoFileId
        failed == (detach /\ ~detach_ok) \/ (delete /\ ~delete_ok)
        r == remove_file(files, filename)
    IN  IF failed
        THEN [val |-> FALSE, files |-> files, index_files |-> attached,
              detach_failed |-> detach /\ ~detach_ok,
              delete_failed |-> delete /\ ~delete_ok]
        ELSE [val |-> r.val, files |-> r.files,
              index_files |-> attached \ {file_id},
              detach_failed |-> FALSE, delete_failed |-> FALSE]

\* FileManager.remove_file_from_openai then remove_file, as
\* remove_file_completely runs them: the detach and the delete are attempted
\* for a file with a file_id, their failures are logged and dropped, and the
\* value returned is remove_file's.  The platform drops a deleted file from
\* the Index it was attached to.
remove_file_completely(files, vs_id, attached, filename, detach_ok, delete_ok) ==
    LET i == FirstIndexOf(files, filename)
        file_id == IF i = 0 THEN NoFileId ELSE files[i].file_id
        detach == i # 0 /\ vs_id # None /\ file_id # NoFileId
        delete == i # 0 /\ file_id # NoFileId
        d == IF detach
             THEN remove_file_from_vector_store(attached, file_id, detach_ok)
             ELSE [val |-> TRUE, index_files |-> attached]
        deleted == IF delete THEN delete_file(file_id, delete_ok) ELSE TRUE
        r == remove_file(files, filename)
    IN  [val |-> r.val, files |-> r.files,
         index_files |-> IF delete /\ deleted
                         THEN d.index_files \ {file_id}
                         ELSE d.index_files,
         detach_failed |-> ~d.val, delete_failed |-> ~deleted]

\* What generate_quiz stores on success, here a quiz of one record.
QuizValue == JsonArray(<<JsonLiteral("Q1")>>)

\* ----------------------------------------------------- the script, main.py
\* The session as one record, so that the blocks of the script compose.
Cur ==
    [uploaded_files |-> uploaded_files, vector_store_id |-> vector_store_id,
     assistant_id |-> assistant_id, index_files |-> index_files,
     assistant_index |-> assistant_index,
     openai_client |-> openai_client, start_chat |-> start_chat,
     thread_id |-> thread_id, quiz_data |-> quiz_data, messages |-> messages,
     quiz_thread_id |-> quiz_thread_id, uploader_version |-> uploader_version,
     uploader |-> uploader, calls |-> <<>>]

Commit(s) ==
    /\ uploaded_files' = s.uploaded_files
    /\ vector_store_id' = s.vector_store_id
    /\ assistant_id' = s.assistant_id
    /\ index_files' = s.index_files
    /\ assistant_index' = s.assistant_index
    /\ openai_client' = s.openai_client
    /\ start_chat' = s.start_chat
    /\ thread_id' = s.thread_id
    /\ quiz_data' = s.quiz_data
    /\ messages' = s.messages
    /\ quiz_thread_id' = s.quiz_thread_id
    /\ uploader_version' = s.uploader_version
    /\ uploader' = s.uploader
    /\ calls' = s.calls

\* Lines 216-221: handle_file_upload on the uploader's files not yet tracked,
\* in the order new_files, with one outcome per file.
upload_block(s, new_files, outcomes) ==
    LET st == handle_file_upload(
                  [files |-> s.uploaded_files, index_files |-> s.index_files,
                   calls |-> s.calls],
                  new_files, outcomes, s.openai_client, s.vector_store_id)
    IN  [s EXCEPT !.uploaded_files = st.files, !.index_files = st.index_files,
                  !.calls = st.calls]

\* initialize_openai_client: creates the client once; st.stop() ends the run
\* when that fails.
initialize_openai_client(s, init_ok) ==
    IF s.openai_client # None THEN [s |-> s, stop |-> FALSE]
    ELSE IF init_ok THEN [s |-> [s EXCEPT !.openai_client = 1], stop |-> FALSE]
    ELSE [s |-> s, stop |-> TRUE]

\* The attach calls attach_files_to_vector_store issues when its first n
\* succeed: those, and the one that raises.
SetupAttachCalls(vs_id, file_ids, n) ==
    [i \in 1..(IF n < Len(file_ids) THEN n + 1 ELSE n) |->
        [op |-> "attach_file_to_vector_store",
         vector_store_id |-> vs_id, file_id |-> file_ids[i]]]

\* setup_vector_store_and_assistant without the early return for a session
\* that is already set up.
setup_vector_store_and_assistant_NoBail(s, create_ok, attached, asst_ok) ==
    IF ~has_files(s.uploaded_files) THEN s
    ELSE IF ~create_ok
    THEN [s EXCEPT !.calls = Append(@, [op |-> "create_vector_store"])]
    ELSE LET file_ids == get_all_file_ids(s.uploaded_files)
             vs == FreshId({s.vector_store_id})
             s1 == [s EXCEPT
                       !.vector_store_id = vs,
                       !.index_files =
                           attach_files_to_vector_store({}, file_ids, attached),
                       !.calls = @ \o <<[op |-> "create_vector_store"]>>
                                   \o SetupAttachCalls(vs, file_ids, attached)]
             ca == [op |-> "create_assistant", vector_store_id |-> vs]
         IN  IF attached < Len(file_ids) THEN s1
             ELSE IF ~asst_ok THEN [s1 EXCEPT !.calls = Append(@, ca)]
             ELSE [s1 EXCEPT !.assistant_id = FreshId({s.assistant_id}),
                             !.assistant_index = vs,
                             !.calls = Append(@, ca)]

\* setup_vector_store_and_assistant.  create_ok, attached, asst_ok: whether
\* create_vector_store succeeds, how many attach calls succeed before one
\* raises, whether create_assistant succeeds.  The Assistant is created with
\* vector_store_ids = [the Index just created].
setup_vector_store_and_assistant(s, create_ok, attached, asst_ok) ==
    IF ~has_files(s.uploaded_files) THEN s
    ELSE IF s.vector_store_id # None /\ s.assistant_id # None THEN s
    ELSE IF ~create_ok
    THEN [s EXCEPT !.calls = Append(@, [op |-> "create_vector_store"])]
    ELSE LET file_ids == get_all_file_ids(s.uploaded_files)
             vs == FreshId({s.vector_store_id})
             s1 == [s EXCEPT
                       !.vector_store_id = vs,
                       !.index_files =
                           attach_files_to_vector_store({}, file_ids, attached),
                       !.calls = @ \o <<[op |-> "create_vector_store"]>>
                                   \o SetupAttachCalls(vs, file_ids, attached)]
             ca == [op |-> "create_assistant", vector_store_id |-> vs]
         IN  IF attached < Len(file_ids) THEN s1
             ELSE IF ~asst_ok THEN [s1 EXCEPT !.calls = Append(@, ca)]
             ELSE [s1 EXCEPT !.assistant_id = FreshId({s.assistant_id}),
                             !.assistant_index = vs,
                             !.calls = Append(@, ca)]

\* Lines 231-237: clear the ids, reset the chat and quiz state, reset the
\* uploader (its key changes, so the widget is a new, empty one).
teardown(s) ==
    [s EXCEPT !.vector_store_id = clear_vector_store_info.vector_store_id,
              !.assistant_id = clear_vector_store_info.assistant_id,
              !.index_files = {},
              !.assistant_index = None,
              !.start_chat = FALSE,
              !.messages = <<>>,
              !.quiz_data = JsonNull,
              !.quiz_thread_id = None,
              !.uploader_version = @ + 1,
              !.uploader = {}]

\* Lines 227-237: set up when there are files; tear down and rerun when there
\* are none and needs_vector_store_update() says so.
setup_block(s, create_ok, attached, asst_ok) ==
    IF has_files(s.uploaded_files)
    THEN [s |-> setup_vector_store_and_assistant(s, create_ok, attached, asst_ok),
          rerun |-> FALSE]
    ELSE IF needs_vector_store_update(s.uploaded_files, s.vector_store_id,
                                      s.assistant_id)
    THEN [s |-> teardown(s), rerun |-> TRUE]
    ELSE [s |-> s, rerun |-> FALSE]

\* Whether setup_block reaches the remote create calls.
SetupAttempts(s) ==
    /\ has_files(s.uploaded_files)
    /\ ~(s.vector_store_id # None /\ s.assistant_id # None)

\* The remove button without the reset of the uploader: uploader_version
\* stays, and the widget keeps its files.
remove_button_NoReset(s, rm, idx, name, h) ==
    IF ~(idx <= Len(s.uploaded_files)
         /\ s.uploaded_files[idx].original_name = name)
    THEN [s |-> s, rerun |-> FALSE, removal |-> rm]
    ELSE LET r == remove_file_completely(s.uploaded_files, s.vector_store_id,
                                         s.index_files, name, h[1], h[2])
         IN  [s |-> [s EXCEPT !.uploaded_files = r.files,
                              !.index_files = r.index_files],
              rerun |-> TRUE,
              removal |-> [happened |-> TRUE,
                           was_ready |-> s.vector_store_id # None
                                         /\ s.assistant_id # None,
                           was_last |-> Len(s.uploaded_files) = 1,
                           detach_failed |-> r.detach_failed,
                           delete_failed |-> r.delete_failed,
                           ui |-> IF r.val THEN "success" ELSE "warning"]]

\* Lines 251-271, the remove button of row idx showing name: the handler runs
\* when this run renders that button.  h = <<detach_ok, delete_ok>>.
remove_button(s, rm, idx, name, h) ==
    IF ~(idx <= Len(s.uploaded_files)
         /\ s.uploaded_files[idx].original_name = name)
    THEN [s |-> s, rerun |-> FALSE, removal |-> rm]
    ELSE LET r == remove_file_completely(s.uploaded_files, s.vector_store_id,
                                         s.index_files, name, h[1], h[2])
         IN  [s |-> [s EXCEPT !.uploaded_files = r.files,
                              !.index_files = r.index_files,
                              !.uploader_version = @ + 1,
                              !.uploader = {}],
              rerun |-> TRUE,
              removal |-> [happened |-> TRUE,
                           was_ready |-> s.vector_store_id # None
                                         /\ s.assistant_id # None,
                           was_last |-> Len(s.uploaded_files) = 1,
                           detach_failed |-> r.detach_failed,
                           delete_failed |-> r.delete_failed,
                           ui |-> IF r.val THEN "success" ELSE "warning"]]

\* start_chat(), from the "Start Chatting" button.  h = <<create_ok>>:
\* whether create_thread succeeds.
start_chat_button(s, rm, h) ==
    IF s.start_chat \/ ~has_files(s.uploaded_files)
    THEN [s |-> s, rerun |-> FALSE, removal |-> rm]
    ELSE IF h[1]
    THEN [s |-> [s EXCEPT !.start_chat = TRUE,
                          !.thread_id = FreshId({s.thread_id, s.quiz_thread_id})],
          rerun |-> TRUE, removal |-> rm]
    ELSE [s |-> [s EXCEPT !.start_chat = TRUE], rerun |-> FALSE, removal |-> rm]

\* Lines 295-305 and handle_chat_message: the prompt is appended, then the
\* assistant's reply when chat_with_assistant returns one.  h = <<replied>>;
\* the remote calls raise for a missing conversation or Assistant id.
chat_input(s, rm, h) ==
    IF ~s.start_chat THEN [s |-> s, rerun |-> FALSE, removal |-> rm]
    ELSE LET c == [op |-> "chat_with_assistant", thread_id |-> s.thread_id,
                   assistant_id |-> s.assistant_id]
         IN  IF h[1] /\ s.thread_id # None /\ s.assistant_id # None
             THEN [s |-> [s EXCEPT !.messages = @ \o <<"user", "assistant">>,
                                   !.calls = Append(@, c)],
                   rerun |-> TRUE, removal |-> rm]
             ELSE [s |-> [s EXCEPT !.messages = Append(@, "user"),
                                   !.calls = Append(@, c)],
                   rerun |-> TRUE, removal |-> rm]

\* generate_quiz(), from the "Generate Quiz" button.  h = <<create_ok,
\* generated>>: whether create_thread succeeds, whether the client's
\* generate_quiz returns a quiz.
generate_quiz_button(s, rm, h) ==
    IF ~has_files(s.uploaded_files)
    THEN [s |-> s, rerun |-> FALSE, removal |-> rm]
    ELSE IF s.quiz_thread_id = None /\ ~h[1]
    THEN [s |-> s, rerun |-> FALSE, removal |-> rm]
    ELSE LET s1 == IF s.quiz_thread_id = None
                   THEN [s EXCEPT !.quiz_thread_id =
                            FreshId({s.thread_id, s.quiz_thread_id})]
                   ELSE s
             c == [op |-> "generate_quiz", thread_id |-> s1.quiz_thread_id,
                   assistant_id |-> s.assistant_id]
         IN  IF h[2] /\ s.assistant_id # None
             THEN [s |-> [s1 EXCEPT !.quiz_data = QuizValue,
                                    !.calls = Append(@, c)],
                   rerun |-> FALSE, removal |-> rm]
             ELSE [s |-> [s1 EXCEPT !.calls = Append(@, c)],
                   rerun |-> FALSE, removal |-> rm]

\* No widget carries an event: the script runs to its end.
no_event(s, rm, h) == [s |-> s, rerun |-> FALSE, removal |-> rm]

Outcome1 == {<<TRUE>>, <<FALSE>>}
Outcome2 == {<<TRUE, TRUE>>, <<TRUE, FALSE>>, <<FALSE, TRUE>>, <<FALSE, FALSE>>}

\* What the remote calls of the setup block can do in session s: nothing is
\* called, create_vector_store fails, the k-th attach fails, create_assistant
\* fails, or all succeed.
SetupOutcomes(s) ==
    IF ~SetupAttempts(s)
    THEN {[attached |-> 0, create_ok |-> TRUE, asst_ok |-> TRUE]}
    ELSE LET n == Len(get_all_file_ids(s.uploaded_files))
         IN  {[attached |-> 0, create_ok |-> FALSE, asst_ok |-> FALSE]}
             \cup {[attached |-> k, create_ok |-> TRUE, asst_ok |-> FALSE] :
                       k \in 0..n}
             \cup {[attached |-> n, create_ok |-> TRUE, asst_ok |-> TRUE]}

\* The widget handler the event ev selects, with the outcomes h it meets.
Handler(s, rm, ev, h) ==
    CASE ev.type = "remove" -> remove_button(s, rm, ev.idx, ev.name, h)
      [] ev.type = "start_chat" -> start_chat_button(s, rm, h)
      [] ev.type = "chat_input" -> chat_input(s, rm, h)
      [] ev.type = "generate_quiz" -> generate_quiz_button(s, rm, h)
      [] OTHER -> no_event(s, rm, h)

NoEvent == [type |-> "none"]

\* Lines 225-237 from session s1: the client, then the setup block.  ctl
\* says how the run goes on: "stop" after st.stop(), "rerun" after the
\* teardown's st.rerun(), "go" to the widgets below.
TopAfterUpload(s1) ==
    UNION {
        LET i == initialize_openai_client(s1, init_ok)
        IN  IF i.stop
            THEN {[s |-> i.s, ctl |-> "stop"]}
            ELSE {LET b == setup_block(i.s, o.create_ok, o.attached, o.asst_ok)
                  IN  [s |-> b.s, ctl |-> IF b.rerun THEN "rerun" ELSE "go"] :
                      o \in SetupOutcomes(i.s)} :
        init_ok \in IF s1.openai_client = None THEN BOOLEAN ELSE {TRUE}}

\* Lines 207-237 from session s0: upload block, client, setup block; every
\* way the remote calls can go (none is made for a file add_file rejects).
Top(s0) ==
    UNION {
        UNION {TopAfterUpload(upload_block(s0, new_files, outcomes)) :
                   outcomes \in
                       {o \in [1..Len(new_files) ->
                                  IF s0.vector_store_id # None
                                  THEN UploadOutcomes
                                  ELSE UploadOutcomes \ {"attach_fail"}] :
                           \A i \in 1..Len(new_files) :
                               new_files[i] \in RejectedInputs => o[i] = "ok"}} :
        new_files \in Orders(NewFiles(s0.uploader, s0.uploaded_files))}

\* st.rerun(): the script runs again from the top with no widget event; the
\* teardown reruns it once more.  The sessions the reruns can end in.
Rerun(s0) ==
    UNION {IF t.ctl = "rerun" THEN {c.s : c \in Top(t.s)} ELSE {t.s} :
               t \in Top(s0)}

\* The script run ends: the session is as s, with the calls the run made.
EndRun(s, rm) ==
    /\ Commit(s)
    /\ UNCHANGED clientVars
    /\ pc' = "ran"
    /\ removal' = rm

\* One run of the script from session s0 on the widget event ev, whose
\* handler can meet the outcomes hs, and the reruns it asks for.
ScriptRun(s0, rm, ev, hs) ==
    \E t \in Top(s0) :
        IF t.ctl = "stop" THEN EndRun(t.s, rm)
        ELSE IF t.ctl = "rerun" THEN \E s \in Rerun(t.s) : EndRun(s, rm)
        ELSE \E h \in hs :
             \E r \in {Handler(t.s, rm, ev, h)} :
                 IF r.rerun
                 THEN \E s \in Rerun(r.s) : EndRun(s, r.removal)
                 ELSE EndRun(r.s, r.removal)

\* ---------------------------------------------------------------- the user
\* The first run of the session: no widget carries an event.
FirstRun ==
    /\ pc = "start"
    /\ ScriptRun(Cur, NoRemoval, NoEvent, {<<>>})
    /\ UNCHANGED ret

\* A widget event starts a script run from the top.  Buttons exist only when
\* the last run got past initialize_openai_client (st.stop() otherwise).
\* The uploader accepts several files at once.
UserSelectsFiles ==
    \E fs \in SUBSET (UploadInputs \ uploader) \ {{}} :
        /\ pc = "idle"
        /\ ScriptRun([Cur EXCEPT !.uploader = @ \cup fs], NoRemoval,
                     NoEvent, {<<>>})
        /\ UNCHANGED ret

\* The same, with files among them that do not pass add_file's checks.
UserSelectsAnyFiles ==
    \E fs \in SUBSET ((UploadInputs \cup RejectedInputs) \ uploader) \ {{}} :
        /\ pc = "idle"
        /\ ScriptRun([Cur EXCEPT !.uploader = @ \cup fs], NoRemoval,
                     NoEvent, {<<>>})
        /\ UNCHANGED ret

UserUnselectsFile ==
    \E f \in uploader :
        /\ pc = "idle"
        /\ ScriptRun([Cur EXCEPT !.uploader = @ \ {f}], NoRemoval,
                     NoEvent, {<<>>})
        /\ UNCHANGED ret

\* The remove button of row idx, keyed by the row and the file name.
UserClicksRemove ==
    \E idx \in 1..Len(uploaded_files) :
        /\ pc = "idle"
        /\ openai_client # None
        /\ uploader_version + 2 <= MaxUploaderVersion
        /\ ScriptRun(Cur, NoRemoval,
                     [type |-> "remove", idx |-> idx,
                      name |-> uploaded_files[idx].original_name],
                     Outcome2)
        /\ UNCHANGED ret

UserClicksStartChat ==
    /\ pc = "idle"
    /\ openai_client # None
    /\ ~start_chat
    /\ ScriptRun(Cur, NoRemoval, [type |-> "start_chat"], Outcome1)
    /\ UNCHANGED ret

UserSendsPrompt ==
    /\ pc = "idle"
    /\ openai_client # None
    /\ start_chat
    /\ Len(messages) + 2 <= MaxMessages
    /\ ScriptRun(Cur, NoRemoval, [type |-> "chat_input"], Outcome1)
    /\ UNCHANGED ret

UserClicksGenerateQuiz ==
    /\ pc = "idle"
    /\ openai_client # None
    /\ ScriptRun(Cur, NoRemoval, [type |-> "generate_quiz"],
                 IF quiz_thread_id = None
                 THEN {<<FALSE, FALSE>>, <<TRUE, FALSE>>, <<TRUE, TRUE>>}
                 ELSE {<<TRUE, FALSE>>, <<TRUE, TRUE>>})
    /\ UNCHANGED ret

\* The page is shown and waits for the next widget event; the record of the
\* run's client calls is dropped.
PageWaits ==
    /\ pc = "ran"
    /\ pc' = "idle"
    /\ calls' = <<>>
    /\ UNCHANGED <<regVars, ret, sessionVars, remoteVars, clientVars,
                   uploader, removal>>

Next ==
    \/ PageWaits
    \/ FirstRun
    \/ UserSelectsFiles
    \/ UserUnselectsFile
    \/ UserClicksRemove
    \/ UserClicksStartChat
    \/ UserSendsPrompt
    \/ UserClicksGenerateQuiz

Spec == Init /\ [][Next]_vars

\* ---------------------------------------------------------------- claims
\* C1: adding a document whose display_name is already tracked fails with
\* DuplicateName and leaves the Registry as it was.
C1_DuplicateAddRejected ==
    [][(ret'.op = "add_file" /\ has_file_with_name(uploaded_files, ret'.arg.name))
          => (ret'.exc = "DuplicateName" /\ UNCHANGED regVars)]_vars

\* C2: after any sequence of uploads, removals and teardowns in a session, no
\* two tracked documents have the same display name.
C2_UniqueNames ==
    \A i, j \in 1..Len(uploaded_files) :
        uploaded_files[i].original_name = uploaded_files[j].original_name
            => i = j

\* C2 witness: after a removal, the uploader holds both files named a.txt at
\* once and two documents are tracked.
C2_Witness ==
    /\ uploader_version > 0
    /\ Cardinality({f \in uploader : f.name = NameATxt}) = 2
    /\ Len(uploaded_files) = 2

\* C3: add of a document whose extension is outside the allow-list fails with
\* the unsupported-type error and leaves the document list, the Index id and
\* the Assistant id unchanged.
C3_UnsupportedTypeRejected ==
    [][(ret'.op = "add_file" /\ FileExt(ret'.arg.name) \notin SUPPORTED_EXTS)
          => (ret'.exc = "FileTypeNotSupported" /\ UNCHANGED regVars)]_vars

\* C3 witness: an unsupported document was rejected by a Registry that
\* already tracks a document and records an Index.
C3_Witness ==
    /\ ret.op = "add_file"
    /\ ret.exc = "FileTypeNotSupported"
    /\ ret.arg.name = NameDotPdf
    /\ uploaded_files # <<>>
    /\ vector_store_id # None

\* C4: add of a document of a supported type whose size in bytes exceeds
\* MAX_FILE_SIZE_MB * 1024 * 1024 fails with the too-large error and stores
\* nothing (unless writing the temporary copy is what failed).
C4_TooLargeRejected ==
    [][(/\ ret'.op = "add_file"
        /\ FileExt(ret'.arg.name) \in SUPPORTED_EXTS
        /\ ret'.arg.size > CeilingBytes
        /\ ret'.exc # "OSError")
          => (ret'.exc = "FileTooLarge" /\ UNCHANGED regVars)]_vars

\* C5: needs_vector_store_update returns true exactly when (no documents and
\* an Index id or Assistant id is recorded) or (documents and no Index id).
C5_NeedsResyncIff ==
    ret.op = "needs_vector_store_update" =>
        (ret.val <=>
            \/ (Len(uploaded_files) = 0
                /\ (vector_store_id # None \/ assistant_id # None))
            \/ (Len(uploaded_files) > 0 /\ vector_store_id = None))

\* C5 witness: it returned true for an empty Registry that records an
\* Assistant id and no Index id.
C5_Witness ==
    /\ ret.op = "needs_vector_store_update"
    /\ ret.val = TRUE
    /\ Len(uploaded_files) = 0
    /\ vector_store_id = None
    /\ assistant_id # None

\* C6: whenever the remote detach or the remote delete fails during a
\* removal, the user is shown the warning, never the success message.
C6_RemoteFailureSurfaced ==
    (removal.happened /\ (removal.detach_failed \/ removal.delete_failed))
        => removal.ui = "warning"

\* C7: removing the last document while both the Index id and the Assistant
\* id are recorded leaves no document and neither id, and shows no error,
\* also when the remote detach and delete fail.
C7_LastRemovalEmpties ==
    (removal.happened /\ removal.was_ready /\ removal.was_last)
        => /\ uploaded_files = <<>>
           /\ vector_store_id = None
           /\ assistant_id = None
           /\ removal.ui # "error"

\* C7 witness: the last document of a Ready session was removed while both
\* remote calls failed.
C7_Witness ==
    /\ removal.happened
    /\ removal.was_ready
    /\ removal.was_last
    /\ removal.detach_failed
    /\ removal.delete_failed
    /\ uploaded_files = <<>>
    /\ vector_store_id = None
    /\ assistant_id = None

\* C8: with an Index id recorded and no Assistant id (documents tracked), a
\* script run that keeps a document keeps the recorded Index id: the setup
\* step creates no second Index.
C8_IndexReused ==
    [][(/\ vector_store_id # None
        /\ assistant_id = None
        /\ uploaded_files # <<>>
        /\ uploaded_files' # <<>>)
          => vector_store_id' = vector_store_id]_vars

\* C9: whenever an Index is recorded, the file ids attached to it are among
\* the file ids of the tracked documents.
C9_IndexOnlyTracked ==
    vector_store_id # None =>
        index_files \subseteq
            {uploaded_files[i].file_id : i \in 1..Len(uploaded_files)}

\* C10: no state with an empty document list records an Index or Assistant
\* id, an open chat, a chat history, a stored quiz or a quiz conversation.
C10_EmptyMeansReset ==
    (pc = "idle" /\ uploaded_files = <<>>)
        => /\ vector_store_id = None
           /\ assistant_id = None
           /\ ~start_chat
           /\ messages = <<>>
           /\ quiz_data = JsonNull
           /\ quiz_thread_id = None

\* C11: whenever an Assistant id is recorded, an Index id is recorded and the
\* Assistant was created bound to that Index; the recorded Index id does not
\* change while the recorded Assistant id stays the same.
C11_AssistantBoundToIndex ==
    /\ [](assistant_id # None =>
              (vector_store_id # None /\ assistant_index = vector_store_id))
    /\ [][(assistant_id # None /\ assistant_id' = assistant_id)
              => vector_store_id' = vector_store_id]_vars

\* C11 witness: an Assistant is recorded on an Index that was rebuilt after a
\* failed setup, with two documents attached.
C11_Witness ==
    /\ assistant_id # None
    /\ vector_store_id = 2
    /\ assistant_index = 2
    /\ Cardinality(index_files) = 2

\* The sidebar alone: documents are selected, unselected and removed, and
\* the uploader also delivers files that fail add_file's validation.
UploadNext ==
    \/ PageWaits
    \/ FirstRun
    \/ UserSelectsAnyFiles
    \/ UserUnselectsFile
    \/ UserClicksRemove

SpecUpload == Init /\ [][UploadNext]_vars

\* ---------------------------------------------------------- openai_client.py
\* Spec takes a call of chat_with_assistant or generate_quiz as one step with
\* its outcome.  SpecClient takes the call apart: each remote request of the
\* client is a step, and the remote platform moves the runs in between.
TerminalStatuses == {"completed", "failed", "cancelled", "expired"}

\* The statuses in which the platform still works on a run.
ActiveStatuses == {"queued", "in_progress", "requires_action"}

\* What the assistant writes in reply to a chat prompt.
ChatText == <<"x">>

\* The session the client specification starts from: a.txt is tracked and
\* indexed, the Assistant exists, and "Start Chatting" has created thread 1.
ClientSessionInit ==
    /\ uploaded_files = <<UploadedFile(NameATxt, 1, 0, <<"t", "x", "t">>)>>
    /\ vector_store_id = 1
    /\ assistant_id = 1
    /\ index_files = {1}
    /\ assistant_index = 1
    /\ openai_client = 1
    /\ start_chat = TRUE
    /\ thread_id = 1
    /\ quiz_data = JsonNull
    /\ messages = <<>>
    /\ quiz_thread_id = None
    /\ uploader_version = 0
    /\ uploader = {[name |-> NameATxt, size |-> 1]}
    /\ pc = "idle"
    /\ removal = NoRemoval
    /\ calls = <<>>
    /\ ret = NoCall
    /\ threads = << <<>> >>
    /\ runs = <<>>
    /\ call = [op |-> "none", pc |-> "idle", thread_id |-> None,
               run_id |-> None, waited |-> 0, ret |-> NoResult]

\* A timeout that is twice the configured one.
Timeout_Doubled(op) == 2 * CHAT_RESPONSE_TIMEOUT

\* The timeout the call in progress passes to wait_for_run_completion.
Timeout(op) ==
    IF op = "generate_quiz" THEN QUIZ_GENERATION_TIMEOUT
    ELSE CHAT_RESPONSE_TIMEOUT

\* An exception leaves the call: the except clauses log and re-raise, and
\* the handler in main.py reports it.
Raise(exc, status) ==
    call' = [call EXCEPT !.pc = "idle", !.waited = 0,
                         !.ret = [kind |-> "error", exc |-> exc,
                                  status |-> status, turn |-> 0]]

\* StudyBuddyClient.get_assistant_messages: the positions in the thread of
\* the messages of the run written by the assistant, in the order
\* messages.list returns them, newest first.
get_assistant_messages_AnyRun(msgs, run_id) ==
    LET hits == {i \in 1..Len(msgs) : msgs[i].role = "assistant"}
    IN  [k \in 1..Cardinality(hits) |->
            CHOOSE i \in hits : Cardinality({j \in hits : j > i}) = k - 1]

get_assistant_messages(msgs, run_id) ==
    LET hits == {i \in 1..Len(msgs) :
                    msgs[i].run_id = run_id /\ msgs[i].role = "assistant"}
    IN  [k \in 1..Cardinality(hits) |->
            CHOOSE i \in hits : Cardinality({j \in hits : j > i}) = k - 1]

\* A new call may start: no call is in progress, and the bounds leave room
\* for its run and for its two messages in the thread.
CanCall(t) ==
    /\ pc = "idle"
    /\ call.pc = "idle"
    /\ openai_client # None
    /\ Len(runs) < MaxRuns
    /\ t \in 1..Len(threads) => Len(threads[t]) + 2 <= 2 * MaxRuns

\* main.py 295-300 and handle_chat_message: the prompt is appended to the
\* local history and chat_with_assistant is entered.
ChatBegin ==
    /\ CanCall(thread_id)
    /\ start_chat
    /\ Len(messages) + 2 <= MaxRuns + 1
    /\ messages' = Append(messages, "user")
    /\ call' = [op |-> "chat_with_assistant", pc |-> "send_message",
                thread_id |-> thread_id, run_id |-> None, waited |-> 0,
                ret |-> NoResult]
    /\ UNCHANGED <<regVars, ret, openai_client, start_chat, thread_id,
                   quiz_data, quiz_thread_id, uploader_version, runVars,
                   remoteVars, threads, runs>>

\* send_message that creates the user message twice.
SendMessage_Twice ==
    /\ call.pc = "send_message"
    /\ call.thread_id \in 1..Len(threads)
    /\ threads' = [threads EXCEPT ![call.thread_id] =
                      @ \o << [role |-> "user", run_id |-> None,
                                text |-> <<call.op>>],
                              [role |-> "user", run_id |-> None,
                                text |-> <<call.op>>] >>]
    /\ call' = [call EXCEPT !.pc = "run_assistant"]
    /\ UNCHANGED <<regVars, ret, sessionVars, runVars, remoteVars, runs>>

\* StudyBuddyClient.send_message: the user message joins the thread, or the
\* request raises.
SendMessage ==
    /\ call.pc = "send_message"
    /\ \/ /\ call.thread_id \in 1..Len(threads)
          /\ threads' = [threads EXCEPT ![call.thread_id] =
                            Append(@, [role |-> "user", run_id |-> None,
                                       text |-> <<call.op>>])]
          /\ call' = [call EXCEPT !.pc = "run_assistant"]
       \/ /\ Raise("RemoteError", "None")
          /\ UNCHANGED threads
    /\ UNCHANGED <<regVars, ret, sessionVars, runVars, remoteVars, runs>>

\* StudyBuddyClient.run_assistant, and the first line of
\* wait_for_run_completion (start_time): a run is created, queued, or the
\* request raises.
RunAssistant ==
    /\ call.pc = "run_assistant"
    /\ \/ /\ runs' = Append(runs, [thread_id |-> call.thread_id,
                                   assistant_id |-> assistant_id,
                                   instructions |-> call.op,
                                   status |-> "queued"])
          /\ call' = [call EXCEPT !.pc = "wait_for_run_completion",
                                  !.run_id = Len(runs) + 1,
                                  !.waited = 0]
       \/ /\ Raise("RemoteError", "None")
          /\ UNCHANGED runs
    /\ UNCHANGED <<regVars, ret, sessionVars, runVars, remoteVars, threads>>

\* The caller's check of the run wait_for_run_completion returned, without
\* the comparison with "completed".
check_run_status_Ignored(status) == "None"

\* Lines 180-183 and 216-219: the exception raised for the run returned.
check_run_status(status) ==
    IF status # "completed" THEN "RunNotCompleted" ELSE "None"

\* The loop of wait_for_run_completion with a clock that stands still:
\* time.time() - start_time stays what it was.
WaitForRunCompletion_ClockStopped ==
    /\ call.pc = "wait_for_run_completion"
    /\ \E status \in {runs[call.run_id].status} :
         IF status \in TerminalStatuses
         THEN IF check_run_status(status) # "None"
              THEN Raise(check_run_status(status), status)
              ELSE call' = [call EXCEPT !.pc = "get_assistant_messages",
                                        !.waited = 0]
         ELSE UNCHANGED call
    /\ UNCHANGED <<regVars, ret, sessionVars, runVars, remoteVars, threads,
                   runs>>

\* One turn of the loop of wait_for_run_completion, followed on its return
\* by the status check of the caller: time is up, or the run is retrieved
\* and is terminal, or the loop sleeps a second.
WaitForRunCompletion ==
    /\ call.pc = "wait_for_run_completion"
    /\ IF call.waited > Timeout(call.op)
       THEN Raise("RunTimedOut", "None")
       ELSE \/ Raise("RemoteError", "None")
            \/ \E status \in {runs[call.run_id].status} :
                 IF status \in TerminalStatuses
                 THEN IF check_run_status(status) # "None"
                      THEN Raise(check_run_status(status), status)
                      ELSE call' = [call EXCEPT !.pc = "get_assistant_messages",
                                                !.waited = 0]
                 ELSE call' = [call EXCEPT !.waited = @ + 1]
    /\ UNCHANGED <<regVars, ret, sessionVars, runVars, remoteVars, threads,
                   runs>>

\* chat_with_assistant 221-231 and handle_chat_message 194: the first
\* message of the run is returned and appended to the local history.
ChatReturn ==
    /\ call.pc = "get_assistant_messages"
    /\ call.op = "chat_with_assistant"
    /\ \/ /\ Raise("RemoteError", "None")
          /\ UNCHANGED messages
       \/ \E found \in {get_assistant_messages(threads[call.thread_id],
                                               call.run_id)} :
            IF found = <<>>
            THEN Raise("NoAssistantMessage", "None") /\ UNCHANGED messages
            ELSE /\ call' = [call EXCEPT !.pc = "idle",
                                         !.ret = [kind |-> "ok", exc |-> "None",
                                                  status |-> "None",
                                                  turn |-> found[1]]]
                 /\ messages' = Append(messages, "assistant")
    /\ UNCHANGED <<regVars, ret, openai_client, start_chat, thread_id,
                   quiz_data, quiz_thread_id, uploader_version, runVars,
                   remoteVars, threads, runs>>

\* generate_quiz entered on the chat thread.
QuizBegin_OnChatThread ==
    /\ has_files(uploaded_files)
    /\ CanCall(thread_id)
    /\ call' = [op |-> "generate_quiz", pc |-> "send_message",
                thread_id |-> thread_id, run_id |-> None,
                waited |-> 0, ret |-> NoResult]
    /\ UNCHANGED <<regVars, ret, sessionVars, runVars, remoteVars, threads,
                   runs>>

\* main.py generate_quiz 129-141: the quiz thread is created if there is
\* none, and the client's generate_quiz is entered.
QuizBegin ==
    /\ has_files(uploaded_files)
    /\ IF quiz_thread_id = None
       THEN /\ CanCall(Len(threads) + 1)
            /\ \/ /\ threads' = Append(threads, <<>>)
                  /\ quiz_thread_id' = Len(threads) + 1
                  /\ call' = [op |-> "generate_quiz", pc |-> "send_message",
                              thread_id |-> Len(threads) + 1, run_id |-> None,
                              waited |-> 0, ret |-> NoResult]
               \/ /\ call' = [ret |-> [exc |-> "RemoteError", kind |-> "error",
                                       status |-> "None", turn |-> 0],
                              thread_id |-> None, pc |-> "idle",
                              op |-> "create_thread", run_id |-> None,
                              waited |-> 0]
                  /\ UNCHANGED <<threads, quiz_thread_id>>
       ELSE /\ CanCall(quiz_thread_id)
            /\ call' = [op |-> "generate_quiz", pc |-> "send_message",
                        thread_id |-> quiz_thread_id, run_id |-> None,
                        waited |-> 0, ret |-> NoResult]
            /\ UNCHANGED <<threads, quiz_thread_id>>
    /\ UNCHANGED <<regVars, ret, openai_client, start_chat, thread_id,
                   quiz_data, messages, uploader_version, runVars,
                   remoteVars, runs>>

\* generate_quiz 185-200 and main.py 145: the text of the first message of
\* the run goes through extract_first_json_array, and what that returns is
\* stored as the session's quiz.
QuizReturn ==
    /\ call.pc = "get_assistant_messages"
    /\ call.op = "generate_quiz"
    /\ \/ /\ Raise("RemoteError", "None")
          /\ UNCHANGED quiz_data
       \/ \E found \in {get_assistant_messages(threads[call.thread_id],
                                               call.run_id)} :
            IF found = <<>>
            THEN Raise("NoAssistantMessage", "None") /\ UNCHANGED quiz_data
            ELSE \E x \in {extract_first_json_array(
                               Strip(threads[call.thread_id][found[1]].text))} :
                   IF x.exc # "None"
                   THEN Raise(x.exc, "None") /\ UNCHANGED quiz_data
                   ELSE /\ call' = [call EXCEPT
                                       !.pc = "idle",
                                       !.ret = [kind |-> "ok", exc |-> "None",
                                                status |-> "None",
                                                turn |-> found[1]]]
                        /\ quiz_data' = x.val
    /\ UNCHANGED <<regVars, ret, openai_client, start_chat, thread_id,
                   messages, quiz_thread_id, uploader_version, runVars,
                   remoteVars, threads, runs>>

\* The platform takes up a queued run, or pauses and resumes one.
RemoteRunMoves ==
    \E r \in 1..Len(runs) :
        /\ \/ runs[r].status = "queued"
              /\ runs' = [runs EXCEPT ![r].status = "in_progress"]
           \/ runs[r].status = "in_progress"
              /\ runs' = [runs EXCEPT ![r].status = "requires_action"]
           \/ runs[r].status = "requires_action"
              /\ runs' = [runs EXCEPT ![r].status = "in_progress"]
        /\ UNCHANGED <<regVars, ret, sessionVars, runVars, remoteVars,
                       threads, call>>

\* The platform ends a run without a result.
RemoteRunStops ==
    \E r \in 1..Len(runs), status \in {"failed", "cancelled", "expired"} :
        /\ runs[r].status \in ActiveStatuses
        /\ runs' = [runs EXCEPT ![r].status = status]
        /\ UNCHANGED <<regVars, ret, sessionVars, runVars, remoteVars,
                       threads, call>>

\* What the assistant writes in reply to the quiz prompt: a fenced array of
\* two well-formed records, an array of three records that have three
\* options, a correct value that is no option and no question, and prose.
QuizTexts ==
    { <<"BQ", "BQ", "BQ", "json", "\n", "[", "Q1", ",", " ", "Q2", "]", "\n",
        "BQ", "BQ", "BQ">>,
      <<"[", "Q3", ",", "Qx", ",", "Qn", "]">>,
      <<"x">> }

\* What the assistant writes for a run.
RunTexts(r) ==
    IF runs[r].instructions = "generate_quiz" THEN QuizTexts ELSE {ChatText}

\* The platform completes a run that is in progress; the assistant's message
\* of the run, if it wrote one, is in the thread by then.
RemoteRunCompletes ==
    \E r \in 1..Len(runs) :
        /\ runs[r].status = "in_progress"
        /\ runs' = [runs EXCEPT ![r].status = "completed"]
        /\ \/ UNCHANGED threads
           \/ \E text \in RunTexts(r) :
                threads' = [threads EXCEPT ![runs[r].thread_id] =
                               Append(@, [role |-> "assistant", run_id |-> r,
                                          text |-> text])]
        /\ UNCHANGED <<regVars, ret, sessionVars, runVars, remoteVars, call>>

ClientNext ==
    \/ ChatBegin
    \/ SendMessage
    \/ RunAssistant
    \/ WaitForRunCompletion
    \/ ChatReturn
    \/ QuizBegin
    \/ QuizReturn
    \/ RemoteRunMoves
    \/ RemoteRunStops
    \/ RemoteRunCompletes

SpecClient == ClientSessionInit /\ [][ClientNext]_vars

\* ------------------------------------- wait_for_run_completion on its own
\* chat_with_assistant has sent the prompt and started run 1, and enters
\* wait_for_run_completion.
PollInit ==
    /\ uploaded_files = <<UploadedFile(NameATxt, 1, 0, <<"t", "x", "t">>)>>
    /\ vector_store_id = 1
    /\ assistant_id = 1
    /\ index_files = {1}
    /\ assistant_index = 1
    /\ openai_client = 1
    /\ start_chat = TRUE
    /\ thread_id = 1
    /\ quiz_data = JsonNull
    /\ messages = <<"user">>
    /\ quiz_thread_id = None
    /\ uploader_version = 0
    /\ uploader = {[name |-> NameATxt, size |-> 1]}
    /\ pc = "idle"
    /\ removal = NoRemoval
    /\ calls = <<>>
    /\ ret = NoCall
    /\ threads = << << [role |-> "user", run_id |-> None,
                        text |-> <<"chat_with_assistant">>] >> >>
    /\ runs = << [thread_id |-> 1, assistant_id |-> 1,
                  instructions |-> "chat_with_assistant",
                  status |-> "queued"] >>
    /\ call = [op |-> "chat_with_assistant", pc |-> "wait_for_run_completion",
               thread_id |-> 1, run_id |-> 1, waited |-> 0, ret |-> NoResult]

\* The platform ends a run as incomplete: a status that is not among the
\* four the loop returns on, and that the run keeps.
RemoteRunIncomplete ==
    \E r \in 1..Len(runs) :
        /\ runs[r].status = "in_progress"
        /\ runs' = [runs EXCEPT ![r].status = "incomplete"]
        /\ UNCHANGED <<regVars, ret, sessionVars, runVars, remoteVars,
                       threads, call>>

PollNext ==
    \/ WaitForRunCompletion
    \/ RemoteRunMoves
    \/ RemoteRunStops
    \/ RemoteRunCompletes
    \/ RemoteRunIncomplete

\* The loop runs on the calling thread and blocks it: while the call is in
\* the loop, its next turn is taken.
SpecPoll == PollInit /\ [][PollNext]_vars /\ WF_vars(WaitForRunCompletion)

\* ------------------------------------------------- the quiz tab, main.py
\* Quiz records the assistant can put into its array.
GradedLiterals == {"Q1", "Q2", "Q3", "Qx"}

\* Replies to the quiz prompt: arrays of one and of two records.
GradedTexts ==
    {<<"[", a, "]">> : a \in GradedLiterals}
    \cup {<<"[", a, ",", b, "]">> : a \in GradedLiterals, b \in GradedLiterals}

\* The comparison of line 331 on strings folded to lower case.
FoldCase(x) == IF x = "A" THEN "a" ELSE x

answer_matches_NoCase(user_answer, correct_answer) ==
    FoldCase(user_answer) = FoldCase(correct_answer)

\* Line 331: user_answer == correct_answer
answer_matches(user_answer, correct_answer) == user_answer = correct_answer

\* Lines 326-335: the loop over the questions from index idx on, with the
\* score so far.
RECURSIVE score_loop(_, _, _, _)
score_loop(quiz, user_answers, idx, score) ==
    IF idx > Len(quiz) THEN score
    ELSE score_loop(quiz, user_answers, idx + 1,
                    IF answer_matches(user_answers[idx], quiz[idx].val.correct)
                    THEN score + 1
                    ELSE score)

\* The selections the form allows: one option of each question.
Selections(quiz) ==
    {a \in [1..Len(quiz) -> {"a", "A", "b", "c", "d"}] :
        \A k \in 1..Len(quiz) :
            \E j \in 1..Len(quiz[k].val.options) : quiz[k].val.options[j] = a[k]}

\* "Generate Quiz" as one step, with a run that completes with one of the
\* replies: what extract_first_json_array returns is stored.
QuizStored ==
    \E text \in GradedTexts :
        \E x \in {extract_first_json_array(Strip(text))} :
            /\ pc = "idle"
            /\ call.pc = "idle"
            /\ has_files(uploaded_files)
            /\ x.exc = "None"
            /\ quiz_data' = x.val
            /\ quiz_thread_id' = IF quiz_thread_id = None
                                 THEN FreshId({thread_id})
                                 ELSE quiz_thread_id
            /\ ret' = NoCall
            /\ UNCHANGED <<regVars, openai_client, start_chat, thread_id,
                           messages, uploader_version, runVars, remoteVars,
                           clientVars>>

\* Lines 314-339: the form of the stored quiz is submitted with one option
\* selected for each question; ret is the score line shown.
SubmitQuiz ==
    /\ pc = "idle"
    /\ call.pc = "idle"
    /\ quiz_data.type = "array"
    /\ quiz_data.val # <<>>
    /\ \E user_answers \in Selections(quiz_data.val) :
         ret' = [op |-> "submit_quiz", user_answers |-> user_answers,
                 score |-> score_loop(quiz_data.val, user_answers, 1, 0),
                 total |-> Len(quiz_data.val)]
    /\ UNCHANGED <<regVars, ctlVars>>

QuizNext ==
    \/ QuizStored
    \/ SubmitQuiz

SpecQuiz == ClientSessionInit /\ [][QuizNext]_vars

\* ------------------------------------------ the extractor applied to texts
\* The longest array of a text.
MaxItems == 3

FenceMark == <<"BQ", "BQ", "BQ">>

\* A body in a fenced block with the tag line "json", and in one with no tag.
FencedJson(body) == FenceMark \o <<"json", "\n">> \o body \o <<"\n">> \o FenceMark

FencedPlain(body) == FenceMark \o <<"\n">> \o body \o <<"\n">> \o FenceMark

\* The JSON text of the array of the literals items, and what it decodes to.
ArrayText(items) ==
    LET joined[k \in 0..Len(items)] ==
            IF k = 0 THEN <<>>
            ELSE IF k = 1 THEN <<items[1]>>
            ELSE joined[k - 1] \o <<",", items[k]>>
    IN  <<"[">> \o joined[Len(items)] \o <<"]">>

Decoded(items) == JsonArray([k \in 1..Len(items) |-> JsonLiteral(items[k])])

\* Arrays of up to MaxItems quiz records.
RecordLiterals == {"Q1", "Q3", "Qb"}

RecordSeqs == UNION {[1..n -> RecordLiterals] : n \in 0..MaxItems}

\* Texts that are no array of records: a number, prose, nothing, a record
\* alone, arrays cut short at either end, two arrays, an array in an array,
\* an array with a comma too many.
OtherBodies ==
    { <<"7">>, <<"x">>, <<>>, <<"Q1">>, <<"[", "Q1">>, <<"Q1", "]">>,
      <<"[", "Q1", "]", "[", "7", "]">>, <<"[", "[", "7", "]", "]">>,
      <<"[", "Q1", ",", "]">> }

Bodies == {ArrayText(items) : items \in RecordSeqs} \cup OtherBodies

\* Prose before and after: none, words, words in brackets, a number in
\* brackets, a bracket alone.
LeadProse ==
    { <<>>, <<"x", "\n">>, <<"[", "x", "]", "\n">>, <<"[", "7", "]", "\n">>,
      <<"[", "\n">> }

TrailProse == { <<>>, <<"\n", "x">>, <<"\n", "x", "]">>, <<"\n", "[", "x", "]">> }

ExtractorTexts ==
    {lead \o block \o trail :
        lead \in LeadProse, trail \in TrailProse,
        block \in Bodies \cup {FencedJson(b) : b \in Bodies}
                         \cup {FencedPlain(b) : b \in Bodies}}

\* A text is at hand; nothing else of the session matters.
ExtractInit ==
    /\ FileManagerInit
    /\ SessionInit
    /\ RemoteInit
    /\ ClientInit
    /\ uploader = {}
    /\ pc = "start"
    /\ removal = NoRemoval
    /\ calls = <<>>
    /\ \E text \in ExtractorTexts : ret = [op |-> "text", text |-> text]

\* extract_first_json_array(text) is called; ret is what it returned or
\* raised.
Extract ==
    /\ ret.op = "text"
    /\ ret' = [op |-> "extract_first_json_array", text |-> ret.text,
               result |-> extract_first_json_array(ret.text)]
    /\ UNCHANGED <<regVars, ctlVars>>

ExtractNext == Extract

SpecExtract == ExtractInit /\ [][ExtractNext]_vars

\* The calls of the sequence cs whose operation is one of ops.
CallsOf(cs, ops) == SelectSeq(cs, LAMBDA c : c.op \in ops)

\* The file ids of the documents tracked after the step and not before it.
NewFileIds ==
    {uploaded_files'[i].file_id :
        i \in (Len(uploaded_files) + 1)..Len(uploaded_files')} \ {NoFileId}

\* C12: a script run that starts with the Index id and the Assistant id both
\* recorded and tracks a new document leaves both ids as they were, creates
\* no Index and no Assistant, and issues exactly one attach call for each new
\* document it uploaded, addressed to the recorded Index, and no other attach
\* call; the Index keeps its attachments and gains only new documents.
C12_AttachedIncrementally ==
    [][(/\ vector_store_id # None
        /\ assistant_id # None
        /\ Len(uploaded_files') > Len(uploaded_files))
       => /\ vector_store_id' = vector_store_id
          /\ assistant_id' = assistant_id
          /\ CallsOf(calls', {"create_vector_store", "create_assistant"}) = <<>>
          /\ \E at \in {CallsOf(calls', {"attach_file_to_vector_store"})} :
                /\ \A id \in NewFileIds :
                      Cardinality({i \in 1..Len(at) : at[i].file_id = id}) = 1
                /\ \A i \in 1..Len(at) :
                      /\ at[i].file_id \in NewFileIds
                      /\ at[i].vector_store_id = vector_store_id
          /\ index_files \subseteq index_files'
          /\ index_files' \subseteq index_files \cup NewFileIds]_vars

\* A run has just attached b.PDF to the Index that already held a.txt, with
\* one upload and one attach call and nothing else.
C12_Witness ==
    /\ pc = "ran"
    /\ vector_store_id # None
    /\ assistant_id # None
    /\ Len(uploaded_files) = 2
    /\ Len(calls) = 2
    /\ calls[1] = [op |-> "upload_file",
                   file |-> [name |-> NameBPdf, size |-> 157287]]
    /\ calls[2] = [op |-> "attach_file_to_vector_store",
                   vector_store_id |-> vector_store_id,
                   file_id |-> uploaded_files[2].file_id]
    /\ index_files = {uploaded_files[1].file_id, uploaded_files[2].file_id}
    /\ Cardinality(index_files) = 2

\* add_file raises for f, or handle_file_upload skips it, given the documents
\* tracked when the run starts.
FailsValidation(f, before) ==
    \/ ~validate_file_type(f.name, SUPPORTED_EXTS)
    \/ get_file_size_mb(f.size) > MAX_FILE_SIZE_MB
    \/ has_file_with_name(before, f.name)

\* The records of the documents tracked after the step and not before it.
NewRecords ==
    {uploaded_files'[i] : i \in (Len(uploaded_files) + 1)..Len(uploaded_files')}

\* C13: in every script run, a file of the uploader that has an unsupported
\* type, is too large or bears a tracked name is the subject of no upload
\* call and gets no record; of several files with one name at most one is
\* uploaded and tracked; and every attach call names the file id of a document
\* tracked before the run or by it, so none is issued for a rejected file.
C13_RejectedBeforeRemote ==
    [][pc' = "ran" =>
        /\ \A f \in uploader' :
              FailsValidation(f, uploaded_files) =>
                /\ \A i \in 1..Len(calls') :
                      calls'[i].op = "upload_file" => calls'[i].file # f
                /\ \A r \in NewRecords :
                      ~(/\ r.original_name = f.name
                        /\ r.file_size_mb = get_file_size_mb(f.size)
                        /\ ~has_file_with_name(uploaded_files, f.name))
        /\ \A f \in uploader' :
              /\ Cardinality({i \in 1..Len(calls') :
                                /\ calls'[i].op = "upload_file"
                                /\ calls'[i].file.name = f.name}) <= 1
              /\ Cardinality({i \in 1..Len(uploaded_files') :
                                uploaded_files'[i].original_name = f.name}) <= 1
        /\ \A i \in 1..Len(calls') :
              calls'[i].op = "attach_file_to_vector_store" =>
                  calls'[i].file_id \in
                      {uploaded_files[j].file_id : j \in 1..Len(uploaded_files)}
                      \cup {r.file_id : r \in NewRecords}]_vars

\* A run has just met both a.txt files, c.exe and the oversized b.PDF in the
\* uploader: one a.txt was uploaded and attached, nothing else.
C13_Witness ==
    /\ pc = "ran"
    /\ uploader = {[name |-> NameATxt, size |-> 1],
                   [name |-> NameATxt, size |-> 2]} \cup RejectedInputs
    /\ Len(CallsOf(calls, {"upload_file"})) = 1
    /\ Len(CallsOf(calls, {"attach_file_to_vector_store"})) = 1
    /\ Len(uploaded_files) = 1
    /\ uploaded_files[1].original_name = NameATxt
    /\ index_files = {uploaded_files[1].file_id}

\* C14: a call that is still waiting when more than the timeout has elapsed
\* ends at its next step with the timeout error, returns no message and
\* stores neither a reply nor a quiz; the wait never lasts longer, and the
\* local history never holds more replies than chat runs have completed.
C14_TimeoutGivesNoResult ==
    /\ [](call.pc = "wait_for_run_completion"
            => call.waited <= (IF call.op = "generate_quiz"
                               THEN QUIZ_GENERATION_TIMEOUT
                               ELSE CHAT_RESPONSE_TIMEOUT) + 1)
    /\ [](Len(SelectSeq(messages, LAMBDA m : m = "assistant"))
            <= Cardinality({r \in 1..Len(runs) :
                              /\ runs[r].instructions = "chat_with_assistant"
                              /\ runs[r].status = "completed"}))
    /\ [][(/\ call.pc = "wait_for_run_completion"
           /\ call.waited > (IF call.op = "generate_quiz"
                             THEN QUIZ_GENERATION_TIMEOUT
                             ELSE CHAT_RESPONSE_TIMEOUT)
           /\ call' # call)
          => /\ call'.pc = "idle"
             /\ call'.ret = [exc |-> "RunTimedOut", kind |-> "error",
                             status |-> "None", turn |-> 0]
             /\ messages' = messages
             /\ quiz_data' = quiz_data]_vars

\* A chat call has timed out on a run the platform is still working on; the
\* history holds the prompt and no reply.
C14_Witness ==
    /\ call.op = "chat_with_assistant"
    /\ call.pc = "idle"
    /\ call.ret.exc = "RunTimedOut"
    /\ runs[call.run_id].status = "in_progress"
    /\ messages = <<"user">>

\* C15: no thread has more than one run that is queued or in progress.
C15_OneJobInFlight ==
    \A t \in 1..Len(threads) :
        Cardinality({r \in 1..Len(runs) :
                        /\ runs[r].thread_id = t
                        /\ runs[r].status \in {"queued", "in_progress"}}) <= 1

\* C16: a call that retrieves its run, in time, with the status failed,
\* cancelled or expired ends at that step with an error that carries the
\* status (or with the error of the retrieve request itself), returns no
\* message and stores neither a reply nor a quiz, for chat and quiz alike.
C16_FailedRunRaisesStatus ==
    [][(/\ call.pc = "wait_for_run_completion"
        /\ call.waited <= CHAT_RESPONSE_TIMEOUT
        /\ call.waited <= QUIZ_GENERATION_TIMEOUT
        /\ runs[call.run_id].status \in {"failed", "cancelled", "expired"}
        /\ call' # call)
       => /\ call'.pc = "idle"
          /\ call'.ret.kind = "error"
          /\ call'.ret.turn = 0
          /\ \/ /\ call'.ret.exc = "RunNotCompleted"
                /\ call'.ret.status = runs[call.run_id].status
             \/ call'.ret.exc = "RemoteError"
          /\ messages' = messages
          /\ quiz_data' = quiz_data]_vars

\* A quiz call has ended with the error that carries "expired"; no quiz is
\* stored.
C16_Witness ==
    /\ call.op = "generate_quiz"
    /\ call.pc = "idle"
    /\ call.ret.exc = "RunNotCompleted"
    /\ call.ret.status = "expired"
    /\ runs[call.run_id].status = "expired"
    /\ quiz_data = JsonNull

\* C17: the message a call returned was written by the assistant for the run
\* the call started and awaited, in the thread of the call.
C17_ReturnedTextIsOfAwaitedRun ==
    (call.pc = "idle" /\ call.ret.kind = "ok")
        => /\ call.ret.turn \in 1..Len(threads[call.thread_id])
           /\ threads[call.thread_id][call.ret.turn].role = "assistant"
           /\ threads[call.thread_id][call.ret.turn].run_id = call.run_id

\* A call returned the message of its run although the newest message of
\* the thread was written by the assistant for another run.
C17_Witness ==
    /\ call.pc = "idle"
    /\ call.ret.kind = "ok"
    /\ \E i \in 1..Len(threads[call.thread_id]) :
         /\ i > call.ret.turn
         /\ i = Len(threads[call.thread_id])
         /\ threads[call.thread_id][i].role = "assistant"
         /\ threads[call.thread_id][i].run_id # call.run_id

\* C18: the quiz thread is not the chat thread; every message of the chat
\* thread is a chat prompt or was written for a chat run, every message of
\* the quiz thread is the quiz prompt or was written for a quiz run; and the
\* local chat history changes only in a chat call.
C18_QuizThreadApart ==
    /\ [](/\ quiz_thread_id # thread_id
          /\ \A t \in 1..Len(threads) : \A i \in 1..Len(threads[t]) :
               \E op \in {IF threads[t][i].role = "user"
                          THEN threads[t][i].text[1]
                          ELSE runs[threads[t][i].run_id].instructions} :
                 /\ t = thread_id => op = "chat_with_assistant"
                 /\ t = quiz_thread_id => op = "generate_quiz")
    /\ [][messages' # messages => call'.op = "chat_with_assistant"]_vars

\* Chat and quiz have both run: each thread holds its own prompt and answer,
\* and the history holds the chat exchange only.
C18_Witness ==
    /\ quiz_thread_id = 2
    /\ Len(threads[1]) = 2
    /\ Len(threads[2]) = 2
    /\ messages = <<"user", "assistant">>
    /\ quiz_data # JsonNull

\* A well-formed quiz record: the three keys, four options, and a correct
\* value among them.
IsQuizItem(item) ==
    /\ item.type = "object"
    /\ QuizKeys \subseteq item.val.keys
    /\ Len(item.val.options) = 4
    /\ \E k \in 1..Len(item.val.options) : item.val.options[k] = item.val.correct

\* C19: the stored quiz, when there is one, is an array of well-formed quiz
\* records.
C19_StoredQuizWellFormed ==
    quiz_data # JsonNull =>
        /\ quiz_data.type = "array"
        /\ \A k \in 1..Len(quiz_data.val) : IsQuizItem(quiz_data.val[k])

\* C20: the score shown for a submitted quiz is the number of questions whose
\* selected option is the very string of the question's correct value, and
\* the total shown is the number of questions.
C20_ScoreCountsExactMatches ==
    ret.op = "submit_quiz" =>
        /\ ret.score =
               Cardinality({k \in 1..Len(quiz_data.val) :
                               ret.user_answers[k] = quiz_data.val[k].val.correct})
        /\ ret.total = Len(quiz_data.val)

\* The quiz [Q1, Q2] was submitted with "a" selected twice: right on the
\* first question, and on the second, whose correct value is "A", wrong:
\* 1 out of 2.
C20_Witness ==
    /\ ret.op = "submit_quiz"
    /\ quiz_data = JsonArray(<<JsonLiteral("Q1"), JsonLiteral("Q2")>>)
    /\ ret.user_answers = <<"a", "a">>
    /\ ret.score = 1
    /\ ret.total = 2

\* The text that was given to the extractor, and what came of it.
Extracted == ret.op = "extract_first_json_array"

\* C21: the array of quiz records in a fenced block tagged json is returned
\* as it is: the same records, as many, in the same order.
C21_FencedArrayRoundTrip ==
    \A items \in RecordSeqs :
        (Extracted /\ ret.text = FencedJson(ArrayText(items)))
            => ret.result = Returned(Decoded(items))

\* The fenced array of Q1, Q3 and Qb came back as these three records.
C21_Witness ==
    /\ Extracted
    /\ ret.text = FencedJson(ArrayText(<<"Q1", "Q3", "Qb">>))
    /\ ret.result.exc = "None"
    /\ Len(ret.result.val.val) = 3
    /\ ret.result.val.val[3].val.question = "Q]"

\* C22: of prose, a fenced json block with an array of records, and prose,
\* the records of that array are returned.
C22_ProseAroundFence ==
    \A items \in RecordSeqs, lead \in LeadProse \ {<<>>},
       trail \in TrailProse \ {<<>>} :
        (Extracted /\ ret.text = lead \o FencedJson(ArrayText(items)) \o trail)
            => ret.result = Returned(Decoded(items))

\* The slices of a text from a "[" to a "]", and the text having none that
\* json.loads accepts.
NoBracketedJson(text) ==
    \A a \in 1..Len(text), b \in 1..Len(text) :
        (a <= b /\ HasOpen(text[a]) /\ HasClose(text[b]))
            => ~json_loads(Slice(text, a, b)).ok

\* C23: a text with no bracketed part that is JSON makes the extractor
\* raise ValueError, and nothing is returned.
C23_NoJsonRaises ==
    (Extracted /\ NoBracketedJson(ret.text))
        => (ret.result.exc = "ValueError" /\ ret.result.val = JsonNull)

\* The token sequence part occurs in the token sequence whole.
Occurs(part, whole) ==
    \E k \in 0..(Len(whole) - Len(part)) :
        SubSeq(whole, k + 1, k + Len(part)) = part

\* C24: the error raised when nothing parses has the text that was given
\* to the extractor, in its message or as the document of its cause.
C24_ErrorCarriesRawText ==
    (Extracted /\ ret.result.exc = "ValueError")
        => \/ Occurs(ret.text, ret.result.message)
           \/ ret.result.context_doc = ret.text

\* C25: what the extractor returns is an array.
C25_ReturnsArray ==
    (Extracted /\ ret.result.exc = "None") => ret.result.val.type = "array"

\* C26: the greedy span is parsed first, the first balanced span only when
\* that failed, the whole cleaned text only when both failed, and the first
\* that parses is the result; when none parses the call raises.
C26_CandidatesInOrder ==
    Extracted =>
        LET t == RemoveFences(ret.text)
            greedy == [k \in 1..Len(GreedySpan(t)) |->
                          json_loads(GreedySpan(t)[k])]
            balanced == [k \in 1..Len(BalancedSpan(t)) |->
                            json_loads(BalancedSpan(t)[k])]
            greedy_ok == greedy # <<>> /\ greedy[1].ok
            balanced_ok == balanced # <<>> /\ balanced[1].ok
        IN  /\ greedy_ok => ret.result = Returned(greedy[1].val)
            /\ (~greedy_ok /\ balanced_ok)
                  => ret.result = Returned(balanced[1].val)
            /\ (~greedy_ok /\ ~balanced_ok /\ json_loads(t).ok)
                  => ret.result = Returned(json_loads(t).val)
            /\ (~greedy_ok /\ ~balanced_ok /\ ~json_loads(t).ok)
                  => ret.result.exc = "ValueError"

\* Of the array of Q1 followed by prose that ends in a "]", the greedy span
\* is no JSON, and the first balanced span, the array, is the result.
C26_Witness ==
    /\ Extracted
    /\ ret.text = <<"[", "Q1", "]", "\n", "x", "]">>
    /\ ~json_loads(GreedySpan(ret.text)[1]).ok
    /\ BalancedSpan(ret.text) = << <<"[", "Q1", "]">> >>
    /\ ret.result = Returned(Decoded(<<"Q1">>))

\* The user turns of a thread, and the place of a step in a call.
UserTurns(thread) == Cardinality({i \in 1..Len(thread) : thread[i].role = "user"})

CallRank(p) ==
    CASE p = "send_message" -> 1
      [] p = "run_assistant" -> 2
      [] p = "wait_for_run_completion" -> 3
      [] p = "get_assistant_messages" -> 4
      [] OTHER -> 0

\* C27: a user turn is appended only by the first step of a call, one turn,
\* to the call's thread, and before any run is started; a run is started
\* only by the second step, one run; a step that raises ends the call and
\* changes nothing remote; and the call goes on to its next step or ends,
\* never back to a step it took.
C27_OneTurnOneJobNoRetry ==
    [][/\ \A t \in 1..Len(threads) :
            UserTurns(threads'[t]) # UserTurns(threads[t])
                => /\ call.pc = "send_message"
                   /\ call'.pc = "run_assistant"
                   /\ t = call.thread_id
                   /\ UserTurns(threads'[t]) = UserTurns(threads[t]) + 1
                   /\ Len(threads'[t]) = Len(threads[t]) + 1
                   /\ runs' = runs
       /\ runs' # runs /\ call' # call
            => /\ call.pc = "run_assistant"
               /\ call'.pc = "wait_for_run_completion"
               /\ Len(runs') = Len(runs) + 1
               /\ call'.run_id = Len(runs')
       /\ (call.pc # "idle" /\ call'.ret.kind = "error")
            => /\ call'.pc = "idle"
               /\ threads' = threads
               /\ runs' = runs
       /\ (call.pc # "idle" /\ call'.pc # call.pc)
            => \/ call'.pc = "idle"
               \/ CallRank(call'.pc) = CallRank(call.pc) + 1
      ]_vars

\* A chat call has ended with the error of the request that starts the
\* run: its one user turn is in the thread, and no run exists.
C27_Witness ==
    /\ call.op = "chat_with_assistant"
    /\ call.pc = "idle"
    /\ call.ret.exc = "RemoteError"
    /\ UserTurns(threads[1]) = 1
    /\ runs = <<>>

\* C28: the call that is in the loop of wait_for_run_completion leaves it.
C28_PollingTerminates ==
    (call.pc = "wait_for_run_completion")
        ~> (call.pc # "wait_for_run_completion")

\* The run ended as incomplete and kept that status; the loop ended with
\* the timeout error.
C28_Witness ==
    /\ call.pc = "idle"
    /\ call.ret.exc = "RunTimedOut"
    /\ runs[1].status = "incomplete"

\* C29: the chat and quiz calls of a script run are made with the recorded
\* Assistant id, and one is recorded.
C29_JobsHaveAssistant ==
    \A k \in 1..Len(calls) :
        calls[k].op \in {"chat_with_assistant", "generate_quiz"}
            => calls[k].assistant_id # None

\* C30: once a script run, and handle_file_upload in it, is over, every
\* tracked file has the id of its upload.
C30_TrackedFilesUploaded ==
    pc # "start" =>
        \A k \in 1..Len(uploaded_files) : uploaded_files[k].file_id # NoFileId

\* The names of the tracked files.
TrackedNames(files) == {files[k].original_name : k \in 1..Len(files)}

\* C31: the script run of a click on a remove button, with the rerun it
\* asks for, ends with that one file untracked, the others as they were,
\* the uploader version raised and the uploader empty; and a name that was
\* not tracked gets tracked only in the run of the user's selecting a file
\* of that name in the uploader.
C31_RemovedStaysRemoved ==
    [][/\ (pc = "idle" /\ pc' = "ran" /\ removal'.happened)
            => /\ \E idx \in 1..Len(uploaded_files) :
                    /\ uploaded_files' = RemoveAt(uploaded_files, idx)
                    /\ uploaded_files[idx].original_name
                           \notin TrackedNames(uploaded_files')
               /\ uploader_version' > uploader_version
               /\ uploader' = {}
       /\ \A name \in TrackedNames(uploaded_files') \ TrackedNames(uploaded_files) :
            \E f \in uploader' \ uploader : f.name = name
      ]_vars

\* a.txt and b.PDF were tracked and in the uploader; the click on the
\* remove button of a.txt and the rerun are over: b.PDF alone is tracked, and
\* the new uploader is empty.
C31_Witness ==
    /\ pc = "ran"
    /\ removal.happened
    /\ TrackedNames(uploaded_files) = {NameBPdf}
    /\ uploader = {}
    /\ uploader_version >= 1

====
